---- MODULE Spec2Model ----
(***************************************************************************)
(* DynamoDBClient (src/clients/dynamo_client.py): the key-expression        *)
(* builder, the query executor and the public operations, over a model of  *)
(* the DynamoDB table the client talks to.                                  *)
(*                                                                         *)
(* Python values are modelled with their truthiness: None, 0 and the empty *)
(* string are falsy, a non-empty tuple or dict is truthy.                  *)
(***************************************************************************)
EXTENDS Integers, Sequences, FiniteSets, TLC

VARIABLES
    schema,   \* key schema of the table the client was constructed on
    table,    \* the items stored in the backend table
    client,   \* the DynamoDBClient object's own fields
    last,     \* the call in progress / just finished by the single caller
    bld,      \* _build_key_expression applied to drawn inputs
    pg,       \* a caller looping over paginate_query
    thr       \* several callers in flight on the shared client

vars == <<schema, table, client, last, bld, pg, thr>>

----------------------------------------------------------------------------
(* Bounds *)

MaxSK == 2        \* sort-key values are 0..MaxSK (0 is Python-falsy)
MaxItems == 2     \* items the table may hold
MaxPage == 2      \* most items the backend evaluates for one response (1 MB)
MaxBatch == 2     \* most keys in one batch_get_items request

PKVals == {1, 2}  \* partition values; also the values of attribute g
SKVals == 0..MaxSK
Stride == Cardinality(PKVals) + 1   \* > every partition value: Rank orders by (sk, pk)

----------------------------------------------------------------------------
(* Python values *)

NoneStr == "None"
Unset == "unset"                 \* a key absent from a request mapping

None == [t |-> "none", a |-> 0, b |-> 0]
Num(n) == [t |-> "num", a |-> n, b |-> 0]
Pair(x, y) == [t |-> "pair", a |-> x, b |-> y]

\* bool(v) for None, a number, a 2-tuple
Truthy(v) == CASE v.t = "none" -> FALSE
               [] v.t = "num" -> v.a # 0
               [] OTHER -> TRUE

\* bool(s) for an optional string
StrTruthy(s) == s # NoneStr /\ s # ""

NoKey == [t |-> "none", pk |-> 0, sk |-> 0, g |-> 0]
KeyOf(pk, sk, g) == [t |-> "key", pk |-> pk, sk |-> sk, g |-> g]

\* bool(d) for an optional dict: a LastEvaluatedKey is never empty
KeyTruthy(k) == k.t # "none"

Items == [pk : PKVals, sk : SKVals, g : PKVals]

----------------------------------------------------------------------------
(* The backend table: put_item, query, batch_get_item, as boto3 reports them *)

\* item[name]
Attr(item, name) == CASE name = "pk" -> item.pk
                      [] name = "sk" -> item.sk
                      [] OTHER -> item.g

\* The primary key of the base table: pk alone, or (pk, sk).
SameKey(sch, i, j) == i.pk = j.pk /\ (sch = "composite" => i.sk = j.sk)

\* Table.put_item(Item=item): an unconditional overwrite by primary key.
put_item(sch, tbl, item) == {i \in tbl : ~SameKey(sch, i, item)} \cup {item}

\* The key schema a query runs against: the base table, or index by_g.
KeySchema(sch, index) ==
    CASE index = Unset -> [known |-> TRUE, hash |-> "pk",
                           range |-> IF sch = "composite" THEN "sk" ELSE NoneStr]
      [] index = "by_g" -> [known |-> TRUE, hash |-> "g", range |-> "sk"]
      [] OTHER -> [known |-> FALSE, hash |-> NoneStr, range |-> NoneStr]

\* Whether the backend accepts the query's key condition.
ValidQuery(sch, p) ==
    LET ks == KeySchema(sch, p.IndexName)
        kc == p.KeyConditionExpression
    IN  /\ ks.known
        /\ kc.pk = ks.hash
        /\ kc.op # "none" => (ks.range # NoneStr /\ kc.sk = ks.range)
        /\ kc.op = "between" => kc.lo <= kc.hi

\* An item satisfies the key condition.
KeyMatch(i, kc) ==
    /\ Attr(i, kc.pk) = kc.pv
    /\ CASE kc.op = "eq" -> Attr(i, kc.sk) = kc.lo
         [] kc.op = "gt" -> Attr(i, kc.sk) > kc.lo
         [] kc.op = "gte" -> Attr(i, kc.sk) >= kc.lo
         [] kc.op = "between" -> kc.lo <= Attr(i, kc.sk) /\ Attr(i, kc.sk) <= kc.hi
         [] OTHER -> TRUE

\* Position of an item in sort-key order (the primary key breaks ties).
Rank(i) == i.sk * Stride + i.pk

RECURSIVE SortAsc(_)
SortAsc(S) ==
    IF S = {} THEN <<>>
    ELSE LET m == CHOOSE x \in S : \A y \in S : Rank(x) <= Rank(y)
         IN  <<m>> \o SortAsc(S \ {m})

Reverse(s) == [k \in 1..Len(s) |-> s[Len(s) + 1 - k]]

\* FilterExpression: Attr('g').eq(1), applied after the key match.
FilterPass(i, f) == f = Unset \/ i.g = 1

\* ProjectionExpression "pk,sk": attribute g is left out (0).
Project(i, proj) == IF proj = Unset THEN i ELSE [i EXCEPT !.g = 0]

Min(a, b) == IF a <= b THEN a ELSE b

\* Table.query(**p).  env is what the caller does not control: a backend
\* fault, how many items fit the response, and whether a read that stops
\* exactly at the last item still reports a LastEvaluatedKey.
query(sch, tbl, p, env) ==
    IF env.fault THEN [ok |-> FALSE, error |-> "ProvisionedThroughputExceededException",
                       Items |-> <<>>, LastEvaluatedKey |-> NoKey]
    ELSE IF ~ValidQuery(sch, p) THEN
                      [ok |-> FALSE, error |-> "ValidationException",
                       Items |-> <<>>, LastEvaluatedKey |-> NoKey]
    ELSE
    LET kc == p.KeyConditionExpression
        asc == SortAsc({i \in tbl : KeyMatch(i, kc)})
        ordered == IF p.ScanIndexForward = Unset THEN asc ELSE Reverse(asc)
        start == p.ExclusiveStartKey
        after(i) == \/ start.t = "none"
                    \/ IF p.ScanIndexForward = Unset
                       THEN Rank(i) > start.sk * Stride + start.pk
                       ELSE Rank(i) < start.sk * Stride + start.pk
        remaining == SelectSeq(ordered, after)
        n == IF p.Limit.t = "none" THEN env.cap ELSE Min(p.Limit.a, env.cap)
        evaluated == SubSeq(remaining, 1, Min(n, Len(remaining)))
        lastItem == evaluated[Len(evaluated)]
        stopped == \/ Len(remaining) > n
                   \/ Len(remaining) = n /\ env.more
        pass(i) == FilterPass(i, p.FilterExpression)
        out == SelectSeq(evaluated, pass)
    IN  [ok |-> TRUE, error |-> "none",
         Items |-> [k \in 1..Len(out) |-> Project(out[k], p.ProjectionExpression)],
         LastEvaluatedKey |->
            IF stopped
            THEN KeyOf(lastItem.pk, lastItem.sk,
                       IF p.IndexName = Unset THEN 0 ELSE lastItem.g)
            ELSE NoKey]

\* The distinct elements of a sequence.
Range(s) == {s[k] : k \in 1..Len(s)}

\* resource.batch_get_item(RequestItems={table_name: {Keys, ConsistentRead}}).
\* keys is the list of {partition_key: value} mappings.  env.done are the
\* key values the backend got to; the rest come back as UnprocessedKeys.
batch_get_item(sch, tbl, partition_key, keys, env) ==
    IF Len(keys) = 0 THEN
        [ok |-> FALSE, error |-> "ParamValidationError", Responses |-> <<>>, UnprocessedKeys |-> {}]
    ELSE IF env.fault \/ Range(keys) \cap env.done = {} THEN
        [ok |-> FALSE, error |-> "ProvisionedThroughputExceededException",
         Responses |-> <<>>, UnprocessedKeys |-> {}]
    ELSE IF sch # "hash" \/ partition_key # "pk" \/ Cardinality(Range(keys)) # Len(keys) THEN
        [ok |-> FALSE, error |-> "ValidationException", Responses |-> <<>>, UnprocessedKeys |-> {}]
    ELSE
    LET found == SortAsc({i \in tbl : i.pk \in Range(keys) \cap env.done})
    IN  [ok |-> TRUE, error |-> "none",
         Responses |-> IF env.rev THEN Reverse(found) ELSE found,
         UnprocessedKeys |-> Range(keys) \ env.done]

----------------------------------------------------------------------------
(* DynamoDBClient._build_key_expression *)

\* Key(partition_key).eq(partition_value)
KeyEq(partition_key, partition_value) ==
    [pk |-> partition_key, pv |-> partition_value,
     op |-> "none", sk |-> NoneStr, lo |-> 0, hi |-> 0]

\* key_expr &= Key(sort_key).<op>(...)
AndSort(key_expr, sort_key, op, lo, hi) ==
    [key_expr EXCEPT !.op = op, !.sk = sort_key, !.lo = lo, !.hi = hi]

\* A request mapping holding the key condition only.
OnlyKeyCondition(kc) ==
    [KeyConditionExpression |-> kc, IndexName |-> Unset, FilterExpression |-> Unset,
     ProjectionExpression |-> Unset, ScanIndexForward |-> Unset,
     ExclusiveStartKey |-> NoKey, Limit |-> None]

\* Mutant: 'between' keeps only the lower end of the range.
_build_key_expression_BetweenAsGte(partition_key, partition_value, sort_key, sort_value, comparator) ==
    LET key_expr == KeyEq(partition_key, partition_value)
    IN  OnlyKeyCondition(
          IF StrTruthy(sort_key) /\ Truthy(sort_value)
          THEN AndSort(key_expr, sort_key, IF comparator = "between" THEN "gte" ELSE comparator, sort_value.a, sort_value.a)
          ELSE key_expr)

_build_key_expression(partition_key, partition_value, sort_key, sort_value, comparator) ==
    LET key_expr == KeyEq(partition_key, partition_value)
    IN  OnlyKeyCondition(
          IF StrTruthy(sort_key) /\ Truthy(sort_value)
          THEN CASE comparator = "eq" ->
                      AndSort(key_expr, sort_key, "eq", sort_value.a, sort_value.a)
                 [] comparator = "gt" ->
                      AndSort(key_expr, sort_key, "gt", sort_value.a, sort_value.a)
                 [] comparator = "gte" ->
                      AndSort(key_expr, sort_key, "gte", sort_value.a, sort_value.a)
                 [] comparator = "between" ->
                      AndSort(key_expr, sort_key, "between", sort_value.a, sort_value.b)
                 [] OTHER -> key_expr
          ELSE key_expr)

----------------------------------------------------------------------------
(* DynamoDBClient._execute_query *)

\* Mutant: descending_order is not passed on as ScanIndexForward.
QueryParams_AlwaysAscending(key_expr, index_name, filter_expression, projection_expression, descending_order, last_evaluated_key, limit) ==
    [key_expr EXCEPT
       !.IndexName = IF StrTruthy(index_name) THEN index_name ELSE @,
       !.FilterExpression = IF StrTruthy(filter_expression) THEN filter_expression ELSE @,
       !.ProjectionExpression =
            IF StrTruthy(projection_expression) THEN projection_expression ELSE @,
       !.ExclusiveStartKey = IF KeyTruthy(last_evaluated_key) THEN last_evaluated_key ELSE @,
       !.Limit = IF Truthy(limit) THEN limit ELSE @]

\* query_params = key_expr.copy(), then one field per truthy option.
QueryParams(key_expr, index_name, filter_expression, projection_expression, descending_order, last_evaluated_key, limit) ==
    [key_expr EXCEPT
       !.IndexName = IF StrTruthy(index_name) THEN index_name ELSE @,
       !.FilterExpression = IF StrTruthy(filter_expression) THEN filter_expression ELSE @,
       !.ProjectionExpression =
            IF StrTruthy(projection_expression) THEN projection_expression ELSE @,
       !.ScanIndexForward = IF descending_order THEN "False" ELSE @,
       !.ExclusiveStartKey = IF KeyTruthy(last_evaluated_key) THEN last_evaluated_key ELSE @,
       !.Limit = IF Truthy(limit) THEN limit ELSE @]

\* Mutant: query_params = key_expr, no copy: the options land in key_expr.
KeyExprAfter_Aliased(key_expr, query_params) == query_params

\* The caller's key_expr once the executor is done with it: the executor
\* wrote into a copy, so it is the mapping the caller passed.
KeyExprAfter(key_expr, query_params) == key_expr

\* Mutant: a ClientError is logged and an empty result returned.
_execute_query_SwallowError(sch, tbl, key_expr, index_name, filter_expression, projection_expression, descending_order, last_evaluated_key, limit, env) ==
    LET query_params == QueryParams(key_expr, index_name, filter_expression,
                                    projection_expression, descending_order,
                                    last_evaluated_key, limit)
        response == query(sch, tbl, query_params, env)
    IN  [raised |-> "none",
         backend_error |-> response.error,
         items |-> response.Items,
         last_evaluated_key |-> response.LastEvaluatedKey,
         requests |-> <<"query">>,
         query_params |-> query_params,
         key_expr |-> KeyExprAfter(key_expr, query_params)]

\* try: response = self.table.query(**query_params) ... except ClientError: raise e
_execute_query(sch, tbl, key_expr, index_name, filter_expression, projection_expression, descending_order, last_evaluated_key, limit, env) ==
    LET query_params == QueryParams(key_expr, index_name, filter_expression,
                                    projection_expression, descending_order,
                                    last_evaluated_key, limit)
        response == query(sch, tbl, query_params, env)
    IN  [raised |-> IF response.ok THEN "none" ELSE response.error,
         backend_error |-> response.error,
         items |-> response.Items,
         last_evaluated_key |-> response.LastEvaluatedKey,
         requests |-> <<"query">>,
         query_params |-> query_params,
         key_expr |-> KeyExprAfter(key_expr, query_params)]

----------------------------------------------------------------------------
(* The public operations.  Each takes the call's arguments as one record   *)
(* (a parameter the operation does not have holds its default) and yields  *)
(* what the caller observes, the backend requests the call issued, and     *)
(* the table afterwards.                                                   *)

DefaultArgs ==
    [partition_key |-> NoneStr, partition_value |-> 0,
     sort_key |-> NoneStr, sort_value |-> None,
     index_name |-> NoneStr, filter_expression |-> NoneStr,
     projection_expression |-> NoneStr, descending_order |-> FALSE,
     last_evaluated_key |-> NoKey, limit |-> None,
     item |-> [pk |-> 0, sk |-> 0, g |-> 0], partition_values |-> <<>>]

NoParams == OnlyKeyCondition(KeyEq(NoneStr, 0))

\* What a query operation hands its caller: the return value (the items,
\* and for paginate_query the next cursor) or the raised error.
Returned(tbl, r, withCursor) ==
    [raised |-> r.raised,
     backend_error |-> r.backend_error,
     has_items |-> r.raised = "none",
     items |-> IF r.raised = "none" THEN r.items ELSE <<>>,
     has_cursor |-> r.raised = "none" /\ withCursor,
     next_cursor |-> IF r.raised = "none" /\ withCursor THEN r.last_evaluated_key ELSE NoKey,
     backend_cursor |-> r.last_evaluated_key,
     requests |-> r.requests,
     query_params |-> r.query_params,
     key_expr |-> r.key_expr,
     table |-> tbl]

\* Mutant: the item is logged as inserted but never put.
insert_item_NoPut(sch, tbl, a, env) ==
    [raised |-> IF env.fault THEN "ProvisionedThroughputExceededException" ELSE "none",
     backend_error |-> IF env.fault THEN "ProvisionedThroughputExceededException" ELSE "none",
     has_items |-> FALSE, items |-> <<>>,
     has_cursor |-> FALSE, next_cursor |-> NoKey, backend_cursor |-> NoKey,
     requests |-> <<"put_item">>,
     query_params |-> NoParams, key_expr |-> NoParams,
     table |-> tbl]

\* insert_item: self.table.put_item(Item=item); a ClientError is logged and re-raised.
insert_item(sch, tbl, a, env) ==
    [raised |-> IF env.fault THEN "ProvisionedThroughputExceededException" ELSE "none",
     backend_error |-> IF env.fault THEN "ProvisionedThroughputExceededException" ELSE "none",
     has_items |-> FALSE, items |-> <<>>,
     has_cursor |-> FALSE, next_cursor |-> NoKey, backend_cursor |-> NoKey,
     requests |-> <<"put_item">>,
     query_params |-> NoParams, key_expr |-> NoParams,
     table |-> IF env.fault THEN tbl ELSE put_item(sch, tbl, a.item)]

\* Mutant: fetch_items returns the executor's tuple, cursor included.
fetch_items_ReturnsCursor(sch, tbl, a, env) ==
    LET key_expr == _build_key_expression(a.partition_key, a.partition_value, a.sort_key, a.sort_value, "eq")
    IN  Returned(tbl, _execute_query(sch, tbl, key_expr, a.index_name, a.filter_expression, a.projection_expression, a.descending_order, NoKey, None, env), TRUE)

\* fetch_items: items, _ = self._execute_query(...); return items
fetch_items(sch, tbl, a, env) ==
    LET key_expr == _build_key_expression(a.partition_key, a.partition_value, a.sort_key, a.sort_value, "eq")
    IN  Returned(tbl, _execute_query(sch, tbl, key_expr, a.index_name, a.filter_expression, a.projection_expression, a.descending_order, NoKey, None, env), FALSE)

\* fetch_items_with_sort_greater_than: comparator='gt', ascending
fetch_items_with_sort_greater_than(sch, tbl, a, env) ==
    LET key_expr == _build_key_expression(a.partition_key, a.partition_value, a.sort_key, a.sort_value, "gt")
    IN  Returned(tbl, _execute_query(sch, tbl, key_expr, a.index_name, a.filter_expression, a.projection_expression, FALSE, NoKey, None, env), FALSE)

\* fetch_items_with_sort_range: the sort value is the tuple (start, end)
fetch_items_with_sort_range(sch, tbl, a, env) ==
    LET key_expr == _build_key_expression(a.partition_key, a.partition_value, a.sort_key, a.sort_value, "between")
    IN  Returned(tbl, _execute_query(sch, tbl, key_expr, a.index_name, NoneStr, NoneStr, FALSE, NoKey, None, env), FALSE)

\* Mutant: the caller's cursor is not handed to the executor.
paginate_query_DropsCursor(sch, tbl, a, env) ==
    LET key_expr == _build_key_expression(a.partition_key, a.partition_value, a.sort_key, a.sort_value, "eq")
    IN  Returned(tbl, _execute_query(sch, tbl, key_expr, a.index_name, a.filter_expression, a.projection_expression, a.descending_order, NoKey, a.limit, env), TRUE)

\* paginate_query: return self._execute_query(...), the cursor included
paginate_query(sch, tbl, a, env) ==
    LET key_expr == _build_key_expression(a.partition_key, a.partition_value, a.sort_key, a.sort_value, "eq")
    IN  Returned(tbl, _execute_query(sch, tbl, key_expr, a.index_name, a.filter_expression, a.projection_expression, a.descending_order, a.last_evaluated_key, a.limit, env), TRUE)

\* batch_get_items: return response["Responses"][self.table_name]
batch_get_items(sch, tbl, a, env) ==
    LET response == batch_get_item(sch, tbl, a.partition_key, a.partition_values, env)
    IN  [raised |-> IF response.ok THEN "none" ELSE response.error,
         backend_error |-> response.error,
         has_items |-> response.ok,
         items |-> IF response.ok THEN response.Responses ELSE <<>>,
         has_cursor |-> FALSE, next_cursor |-> NoKey, backend_cursor |-> NoKey,
         requests |-> <<"batch_get_item">>,
         query_params |-> NoParams, key_expr |-> NoParams,
         table |-> tbl]

----------------------------------------------------------------------------
(* Inputs *)

Schemas == {"hash", "composite"}

\* (partition_key, index_name): the base table, the index, an unknown index.
Targets == {<<"pk", NoneStr>>, <<"g", "by_g">>, <<"pk", "nope">>}

Scalars == {Num(n) : n \in SKVals}
SortValues == {None} \cup Scalars
Ranges == {Pair(x, y) : x \in SKVals, y \in SKVals}
SortKeys == {NoneStr, "sk"}
\* (sort_key, sort_value) as fetch_items and paginate_query callers pass them.
Sorts == {<<NoneStr, None>>, <<"sk", None>>} \cup {<<"sk", v>> : v \in Scalars}
Filters == {NoneStr, "g_eq_1"}
Projections == {NoneStr, "pk,sk"}
Limits == {None} \cup {Num(n) : n \in 0..MaxPage}

NoEnv == [fault |-> FALSE, cap |-> 1, more |-> FALSE, done |-> {}, rev |-> FALSE]
FaultEnv == [NoEnv EXCEPT !.fault = TRUE]

\* What the backend may do to a put, a query, a batch get.
PutEnvs == {NoEnv, FaultEnv}
QueryEnvs == {FaultEnv} \cup {[NoEnv EXCEPT !.cap = c, !.more = m] : c \in 1..MaxPage, m \in BOOLEAN}
BatchEnvs(values) == {FaultEnv} \cup {[NoEnv EXCEPT !.done = d, !.rev = r] : d \in SUBSET Range(values) \ {{}}, r \in BOOLEAN}

KeyArgs == {[DefaultArgs EXCEPT !.partition_key = t[1], !.index_name = t[2], !.partition_value = pv] : t \in Targets, pv \in PKVals}

InsertArgs == {[DefaultArgs EXCEPT !.item = i] : i \in Items}

FetchArgs == {[k EXCEPT !.sort_key = so[1], !.sort_value = so[2], !.filter_expression = f, !.projection_expression = pr, !.descending_order = d] : k \in KeyArgs, so \in Sorts, f \in Filters, pr \in Projections, d \in BOOLEAN}

\* fetch_items by partition key alone.
KeyOnlyFetchArgs == {a \in FetchArgs : a.sort_key = NoneStr /\ a.filter_expression = NoneStr}

GreaterThanArgs == {[k EXCEPT !.sort_key = "sk", !.sort_value = sv, !.filter_expression = f, !.projection_expression = pr] : k \in KeyArgs, sv \in Scalars, f \in Filters, pr \in Projections}

RangeArgs == {[k EXCEPT !.sort_key = "sk", !.sort_value = sv] : k \in KeyArgs, sv \in Ranges}

\* The cursors a caller can hold: none, or one a query over tbl reported.
Cursors(tbl, a) == {NoKey} \cup {KeyOf(i.pk, i.sk, IF a.index_name = NoneStr THEN 0 ELSE i.g) : i \in tbl}

PageArgs == {[k EXCEPT !.descending_order = d, !.limit = l] : k \in KeyArgs, d \in BOOLEAN, l \in Limits}

Lists(S, n) == UNION {[1..m -> S] : m \in 0..n}

BatchArgs == {[DefaultArgs EXCEPT !.partition_key = k, !.partition_values = vs] : k \in {"pk", "g"}, vs \in Lists(PKVals, MaxBatch)}

----------------------------------------------------------------------------
(* The single caller: one call at a time on the client *)

NoItem == DefaultArgs.item

NoCall == [op |-> "none", args |-> DefaultArgs, env |-> NoEnv, before |-> {}, inserted |-> NoItem, replaced |-> NoItem,
           res |-> [insert_item("hash", {}, DefaultArgs, FaultEnv) EXCEPT !.raised = "none", !.backend_error = "none", !.requests = <<>>]]

Idle == last.op = "none"

\* The call before this one was an insert_item that returned.
JustInserted == last.op = "insert_item" /\ last.res.raised = "none"

\* The stored item that put_item(item) overwrote, if any.
Overwritten(sch, tbl, item) ==
    IF \E i \in tbl : SameKey(sch, i, item)
    THEN CHOOSE i \in tbl : SameKey(sch, i, item)
    ELSE NoItem

\* One invocation: what it was given, what the backend did, what it handed
\* back; inserted is the item of the insert_item it directly follows, and
\* replaced the stored item that insert overwrote.
Call(op, a, env, res) ==
    /\ last' = [op |-> op, args |-> a, env |-> env, before |-> table, res |-> res,
                inserted |-> IF JustInserted THEN last.args.item ELSE NoItem,
                replaced |-> IF JustInserted THEN Overwritten(schema, last.before, last.args.item) ELSE NoItem]
    /\ table' = res.table
    /\ UNCHANGED <<schema, client, bld, pg, thr>>

InsertItem ==
    /\ Idle
    /\ \E a \in InsertArgs, env \in PutEnvs :
         /\ Cardinality(put_item(schema, table, a.item)) <= MaxItems
         /\ Call("insert_item", a, env, insert_item(schema, table, a, env))

FetchItemsWhen(ready, A) ==
    /\ ready
    /\ \E a \in A, env \in QueryEnvs :
         Call("fetch_items", a, env, fetch_items(schema, table, a, env))

FetchItems == FetchItemsWhen(Idle, FetchArgs)

\* fetch_items by partition key, called right after an insert_item returned
FetchItemsAfterInsert == FetchItemsWhen(JustInserted, KeyOnlyFetchArgs)

FetchGreaterThan ==
    /\ Idle
    /\ \E a \in GreaterThanArgs, env \in QueryEnvs :
         Call("fetch_items_with_sort_greater_than", a, env, fetch_items_with_sort_greater_than(schema, table, a, env))

FetchRange ==
    /\ Idle
    /\ \E a \in RangeArgs, env \in QueryEnvs :
         Call("fetch_items_with_sort_range", a, env, fetch_items_with_sort_range(schema, table, a, env))

PaginateQuery ==
    /\ Idle
    /\ \E p \in PageArgs, env \in QueryEnvs :
         \E c \in Cursors(table, p) :
            LET a == [p EXCEPT !.last_evaluated_key = c]
            IN  Call("paginate_query", a, env, paginate_query(schema, table, a, env))

BatchGetItems ==
    /\ Idle
    /\ \E a \in BatchArgs :
         \E env \in BatchEnvs(a.partition_values) :
            Call("batch_get_items", a, env, batch_get_items(schema, table, a, env))

\* The call is over: its per-call values are discarded.
Return ==
    /\ ~Idle
    /\ last' = NoCall
    /\ UNCHANGED <<schema, table, client, bld, pg, thr>>

\* DynamoDBClient.__init__(table_name, dynamo_resource)
NewClient == [table_name |-> "students", dynamo_resource |-> "dynamodb", table |-> "Table(students)"]

Init ==
    /\ schema \in Schemas
    /\ table = {}
    /\ client = NewClient
    /\ last = NoCall
    /\ bld = 0
    /\ pg = 0
    /\ thr = 0

Next ==
    \/ InsertItem
    \/ FetchItems
    \/ FetchGreaterThan
    \/ FetchRange
    \/ PaginateQuery
    \/ BatchGetItems
    \/ Return

Spec == Init /\ [][Next]_vars

\* insert_item directly followed by fetch_items
NextInsertFetch ==
    \/ InsertItem
    \/ FetchItemsAfterInsert
    \/ Return

SpecInsertFetch == Init /\ [][NextInsertFetch]_vars

----------------------------------------------------------------------------
(* _build_key_expression on its own: inputs are drawn, then it is applied *)

Comparators == {"eq", "gt", "gte", "between", "lt"}

\* The sort value is a tuple for 'between' and a scalar for the one-sided
\* comparators, as the docstring has it; anything goes with an unknown one.
BuildInputs ==
    {x \in [partition_key : {"pk", "g"}, partition_value : PKVals, sort_key : SortKeys,
            sort_value : SortValues \cup Ranges, comparator : Comparators] :
        /\ x.comparator = "between" => x.sort_value.t # "num"
        /\ x.comparator \in {"eq", "gt", "gte"} => x.sort_value.t # "pair"}

InitBuild ==
    /\ schema = "composite"
    /\ table = {}
    /\ client = NewClient
    /\ last = NoCall
    /\ bld \in {[in |-> x, done |-> FALSE, out |-> NoParams] : x \in BuildInputs}
    /\ pg = 0
    /\ thr = 0

Build ==
    /\ ~bld.done
    /\ bld' = [bld EXCEPT !.done = TRUE,
                 !.out = _build_key_expression(bld.in.partition_key, bld.in.partition_value, bld.in.sort_key, bld.in.sort_value, bld.in.comparator)]
    /\ UNCHANGED <<schema, table, client, last, pg, thr>>

SpecBuild == InitBuild /\ [][Build]_vars

----------------------------------------------------------------------------
(* A caller paging through a result: paginate_query again and again, each  *)
(* time with the cursor the call before returned, on a table nobody writes *)

\* The tables insert_item can build.
Tables(sch) == {t \in SUBSET Items : Cardinality(t) <= MaxItems /\ \A i, j \in t : SameKey(sch, i, j) => i = j}

LoopSorts == {<<NoneStr, None>>, <<"sk", Num(1)>>}

LoopArgs == {[k EXCEPT !.sort_key = so[1], !.sort_value = so[2], !.filter_expression = f, !.descending_order = d, !.limit = l] : k \in KeyArgs, so \in LoopSorts, f \in Filters, d \in BOOLEAN, l \in Limits}

InitPaginate ==
    /\ schema \in Schemas
    /\ table \in Tables(schema)
    /\ client = NewClient
    /\ last = NoCall
    /\ bld = 0
    /\ pg \in {[args |-> a, cursor |-> NoKey, collected |-> <<>>, calls |-> 0, pc |-> "loop"] : a \in LoopArgs}
    /\ thr = 0

\* One turn of the loop: call, keep the page, keep the cursor; stop when
\* the call raised or returned no cursor.
PaginateStep ==
    /\ pg.pc = "loop"
    /\ \E env \in QueryEnvs :
         LET r == paginate_query(schema, table, [pg.args EXCEPT !.last_evaluated_key = pg.cursor], env)
         IN  pg' = IF r.raised # "none"
                   THEN [pg EXCEPT !.pc = "raised", !.calls = @ + 1]
                   ELSE [pg EXCEPT !.collected = @ \o r.items,
                                   !.cursor = r.next_cursor,
                                   !.calls = @ + 1,
                                   !.pc = IF KeyTruthy(r.next_cursor) THEN "loop" ELSE "done"]
    /\ UNCHANGED <<schema, table, client, last, bld, thr>>

SpecPaginate == InitPaginate /\ [][PaginateStep]_vars

----------------------------------------------------------------------------
(* Several callers on one client.  A call is a thread's own steps over its *)
(* own locals (args, key_expr, query_params); what the threads share is    *)
(* the client object and the table behind it.                              *)

MaxCallers == 2
Callers == 1..MaxCallers

ConcItems == {[pk |-> 1, sk |-> 0, g |-> v] : v \in PKVals}
ConcArgs == {[k EXCEPT !.descending_order = d, !.limit = l] : k \in KeyArgs, d \in BOOLEAN, l \in {None, Num(1)}}

NoRequest == [handle |-> NoneStr, api |-> NoneStr, params |-> NoParams, item |-> NoItem]
IdleThread == [pc |-> "idle", op |-> "none", args |-> DefaultArgs, key_expr |-> NoParams, query_params |-> NoParams, sent |-> NoRequest]

InitConc ==
    /\ schema = "composite"
    /\ table = {}
    /\ client = NewClient
    /\ last = NoCall
    /\ bld = 0
    /\ pg = 0
    /\ thr = [c \in Callers |-> IdleThread]

\* paginate_query entered: the key expression is built from the arguments.
EnterQuery(c) ==
    /\ thr[c].pc = "idle"
    /\ \E a \in ConcArgs :
         thr' = [thr EXCEPT ![c] = [IdleThread EXCEPT !.pc = "built", !.op = "paginate_query", !.args = a,
                    !.key_expr = _build_key_expression(a.partition_key, a.partition_value, a.sort_key, a.sort_value, "eq")]]
    /\ UNCHANGED <<schema, table, client, last, bld, pg>>

\* _execute_query up to the try: query_params is assembled.
Assemble(c) ==
    /\ thr[c].pc = "built"
    /\ LET a == thr[c].args
           query_params == QueryParams(thr[c].key_expr, a.index_name, a.filter_expression, a.projection_expression, a.descending_order, a.last_evaluated_key, a.limit)
       IN  thr' = [thr EXCEPT ![c].pc = "assembled",
                              ![c].query_params = query_params,
                              ![c].key_expr = KeyExprAfter(thr[c].key_expr, query_params)]
    /\ UNCHANGED <<schema, table, client, last, bld, pg>>

\* self.table.query(**query_params): the request leaves through the
\* client's table handle.
SendQuery(c) ==
    /\ thr[c].pc = "assembled"
    /\ thr' = [thr EXCEPT ![c].pc = "sent",
                          ![c].sent = [handle |-> client.table, api |-> "query", params |-> thr[c].query_params, item |-> NoItem]]
    /\ UNCHANGED <<schema, table, client, last, bld, pg>>

\* insert_item: self.table.put_item(Item=item)
SendPut(c) ==
    /\ thr[c].pc = "idle"
    /\ \E i \in ConcItems :
         /\ thr' = [thr EXCEPT ![c] = [IdleThread EXCEPT !.pc = "sent", !.op = "insert_item", !.args.item = i,
                       !.sent = [handle |-> client.table, api |-> "put_item", params |-> NoParams, item |-> i]]]
         /\ table' = put_item(schema, table, i)
    /\ UNCHANGED <<schema, client, last, bld, pg>>

\* The call returns (or raises) and its locals are gone.
Leave(c) ==
    /\ thr[c].pc = "sent"
    /\ thr' = [thr EXCEPT ![c] = IdleThread]
    /\ UNCHANGED <<schema, table, client, last, bld, pg>>

NextConc == \E c \in Callers : EnterQuery(c) \/ Assemble(c) \/ SendQuery(c) \/ SendPut(c) \/ Leave(c)

SpecConc == InitConc /\ [][NextConc]_vars

----------------------------------------------------------------------------
(* Properties of the single calls *)

Got(op) == last.op = op /\ last.res.has_items
ItemsOf == Range(last.res.items)
\* The stored items of the partition the call addressed.
Partition == {i \in last.before : Attr(i, last.args.partition_key) = last.args.partition_value}

\* C2: fetch_items_with_sort_greater_than returns only items whose sort-key
\* value is strictly greater than the threshold, for every threshold.
C2_OnlyGreaterThanThreshold ==
    Got("fetch_items_with_sort_greater_than") =>
        \A i \in ItemsOf : Attr(i, last.args.sort_key) > last.args.sort_value.a

\* C3: for start <= end, fetch_items_with_sort_range returns only items of
\* the partition whose sort-key value lies in [start, end].
C3_RangeOnlyInside ==
    (Got("fetch_items_with_sort_range") /\ last.args.sort_value.a <= last.args.sort_value.b) =>
        \A i \in ItemsOf :
            /\ Attr(i, last.args.partition_key) = last.args.partition_value
            /\ last.args.sort_value.a <= Attr(i, last.args.sort_key)
            /\ Attr(i, last.args.sort_key) <= last.args.sort_value.b

\* A range starting at 0 that returned an item and left out a stored item of
\* the same partition lying above the range.
C3_Witness ==
    /\ Got("fetch_items_with_sort_range")
    /\ last.args.sort_value.a = 0
    /\ ItemsOf # {}
    /\ \E i \in Partition : i.sk > last.args.sort_value.b

\* An item as the call's projection shows it.
Shown(i) == IF last.args.projection_expression = NoneStr THEN i ELSE [i EXCEPT !.g = 0]
Descending == last.args.descending_order
\* The returned list follows sort-key order in the direction asked for.
InOrder ==
    \A k \in 1..(Len(last.res.items) - 1) :
        IF Descending THEN last.res.items[k].sk >= last.res.items[k + 1].sk
        ELSE last.res.items[k].sk <= last.res.items[k + 1].sk
\* fetch_items by partition key alone, no filter, that returned.
KeyOnlyFetch == Got("fetch_items") /\ last.args.sort_key = NoneStr /\ last.args.filter_expression = NoneStr

\* C4 as stated: fetch_items with no sort key and no filter returns exactly
\* the stored items of the partition, in descending sort-key order unless
\* descending_order is false.
C4_ExactlyThePartition ==
    KeyOnlyFetch => (ItemsOf = {Shown(i) : i \in Partition} /\ InOrder)

\* C4 amended: it returns the first page the backend reports: stored items
\* of the partition only, each once, in the order asked for, none skipped
\* before the last one returned; and all of them when the response carries
\* no LastEvaluatedKey.
C4_FirstPageOfThePartition ==
    KeyOnlyFetch =>
        /\ ItemsOf \subseteq {Shown(i) : i \in Partition}
        /\ Cardinality(ItemsOf) = Len(last.res.items)
        /\ InOrder
        /\ \A i \in Partition : \A j \in ItemsOf :
              Shown(i) \notin ItemsOf =>
                  IF Descending THEN i.sk <= j.sk ELSE i.sk >= j.sk
        /\ last.res.backend_cursor = NoKey => ItemsOf = {Shown(i) : i \in Partition}

\* A default (descending) fetch that returned a whole partition of two
\* items with different sort keys.
C4_Witness ==
    /\ KeyOnlyFetch
    /\ Descending
    /\ Len(last.res.items) = 2
    /\ last.res.items[1].sk > last.res.items[2].sk
    /\ last.res.backend_cursor = NoKey

\* C5: when the backend call fails, the operation raises that error: it
\* returns no item list and no cursor, and the table is as before the call.
C5_BackendErrorIsRaised ==
    (last.op # "none" /\ last.res.backend_error # "none") =>
        /\ last.res.raised = last.res.backend_error
        /\ ~last.res.has_items
        /\ last.res.items = <<>>
        /\ ~last.res.has_cursor
        /\ table = last.before

\* A fetch on an unknown index over a table that holds items of the partition.
C5_Witness ==
    /\ last.op = "fetch_items"
    /\ last.args.index_name = "nope"
    /\ last.res.raised = "ValidationException"
    /\ Partition # {}

\* C6: batch_get_items returns items whose partition-key values are exactly
\* the requested values that exist in the table.
C6_ExactlyRequestedExisting ==
    Got("batch_get_items") =>
        {i.pk : i \in ItemsOf} = Range(last.args.partition_values) \cap {i.pk : i \in last.before}

\* fetch_items on the partition of the item just inserted, nothing projected.
FetchOfInserted ==
    /\ KeyOnlyFetch
    /\ last.inserted # NoItem
    /\ last.args.projection_expression = NoneStr
    /\ last.args.partition_value = Attr(last.inserted, last.args.partition_key)

\* C7 as stated: fetch_items right after a successful insert_item returns a
\* list that includes the inserted item, and no other item under its key.
C7_FetchIncludesInserted ==
    FetchOfInserted =>
        /\ last.inserted \in ItemsOf
        /\ \A j \in ItemsOf : SameKey(schema, j, last.inserted) => j = last.inserted

\* C7 amended: the list includes the inserted item whenever the response
\* was not cut short (no LastEvaluatedKey), and never an item the insert
\* overwrote.
C7_FetchIncludesInsertedUnlessCut ==
    FetchOfInserted =>
        /\ last.res.backend_cursor = NoKey => last.inserted \in ItemsOf
        /\ \A j \in ItemsOf : SameKey(schema, j, last.inserted) => j = last.inserted

\* The insert overwrote a different stored item, and the fetch returned the
\* new one beside another item of the partition.
C7_Witness ==
    /\ FetchOfInserted
    /\ last.replaced # NoItem
    /\ last.replaced # last.inserted
    /\ last.inserted \in ItemsOf
    /\ Len(last.res.items) = 2

\* The one backend API each operation calls.
Api(op) == CASE op = "insert_item" -> "put_item"
             [] op = "batch_get_items" -> "batch_get_item"
             [] OTHER -> "query"

\* C9: a call issues exactly one backend request and then returns or
\* raises; only paginate_query hands the backend's cursor to the caller.
C9_OneRequestCursorOnlyFromPaginate ==
    last.op # "none" =>
        /\ last.res.requests = <<Api(last.op)>>
        /\ last.res.raised # "none" => ~last.res.has_items
        /\ last.res.has_cursor <=> (last.op = "paginate_query" /\ last.res.raised = "none")
        /\ last.res.next_cursor = IF last.res.has_cursor THEN last.res.backend_cursor ELSE NoKey

\* A fetch whose response carried a LastEvaluatedKey the caller never sees.
C9_Witness ==
    /\ Got("fetch_items")
    /\ last.res.backend_cursor # NoKey
    /\ ~last.res.has_cursor

----------------------------------------------------------------------------
(* Properties of _build_key_expression *)

BuiltCondition == bld.out.KeyConditionExpression
\* The sort condition the comparator stands for, on the inputs drawn.
SortConditionBuilt ==
    /\ BuiltCondition.sk = bld.in.sort_key
    /\ BuiltCondition.op = bld.in.comparator
    /\ BuiltCondition.lo = bld.in.sort_value.a
    /\ bld.in.comparator = "between" => BuiltCondition.hi = bld.in.sort_value.b

\* C8: the partition equality is always there; with a sort key and a sort
\* value both given and one of the four comparators, exactly that sort
\* condition is conjoined; otherwise the partition equality stands alone.
C8_SortConditionWheneverGiven ==
    bld.done =>
        /\ BuiltCondition.pk = bld.in.partition_key
        /\ BuiltCondition.pv = bld.in.partition_value
        /\ IF /\ bld.in.sort_key # NoneStr
              /\ bld.in.sort_value # None
              /\ bld.in.comparator \in {"eq", "gt", "gte", "between"}
           THEN SortConditionBuilt
           ELSE BuiltCondition.op = "none"

----------------------------------------------------------------------------
(* Properties of the paging loop *)

\* What the key parameters and the filter select from the table.
FullResult ==
    LET kc == _build_key_expression(pg.args.partition_key, pg.args.partition_value, pg.args.sort_key, pg.args.sort_value, "eq").KeyConditionExpression
    IN  {i \in table : KeyMatch(i, kc) /\ (pg.args.filter_expression = NoneStr \/ i.g = 1)}
\* The stored items the key parameters select, filtered or not.
Scanned ==
    LET kc == _build_key_expression(pg.args.partition_key, pg.args.partition_value, pg.args.sort_key, pg.args.sort_value, "eq").KeyConditionExpression
    IN  {i \in table : KeyMatch(i, kc)}

\* C1: the pages of the loop hold every item of the full result exactly
\* once, and the loop ends on a call without cursor: it is over after at
\* most one call per stored item of the key range, plus one.
C1_PagesPartitionTheResult ==
    /\ pg.pc = "done" =>
          /\ Range(pg.collected) = FullResult
          /\ Len(pg.collected) = Cardinality(FullResult)
          /\ pg.cursor = NoKey
    /\ pg.calls <= Cardinality(Scanned) + 1
    /\ pg.pc = "loop" =>
          /\ Len(pg.collected) = Cardinality(Range(pg.collected))
          /\ Range(pg.collected) \subseteq FullResult

\* A loop that took three calls to gather two items.
C1_Witness ==
    /\ pg.pc = "done"
    /\ pg.calls = 3
    /\ Len(pg.collected) = 2

----------------------------------------------------------------------------
(* Properties of concurrent callers *)

\* The request a call with these arguments sends when it runs alone.
AloneRequest(t) ==
    IF t.op = "insert_item"
    THEN [handle |-> "Table(students)", api |-> "put_item", params |-> NoParams, item |-> t.args.item]
    ELSE [handle |-> "Table(students)", api |-> "query", item |-> NoItem,
          params |-> [KeyConditionExpression |->
                          [pk |-> t.args.partition_key, pv |-> t.args.partition_value,
                           op |-> "none", sk |-> NoneStr, lo |-> 0, hi |-> 0],
                      IndexName |-> IF t.args.index_name = NoneStr THEN Unset ELSE t.args.index_name,
                      FilterExpression |-> Unset, ProjectionExpression |-> Unset,
                      ScanIndexForward |-> IF t.args.descending_order THEN "False" ELSE Unset,
                      ExclusiveStartKey |-> NoKey,
                      Limit |-> t.args.limit]]

\* C10: whatever the interleaving, the client object stays as constructed,
\* the executor leaves the key-expression mapping it was given as it was
\* (the key condition and nothing else), and each request sent is the one
\* the call would send alone.
C10_CallsDoNotInterfere ==
    /\ client = [table_name |-> "students", dynamo_resource |-> "dynamodb", table |-> "Table(students)"]
    /\ \A c \in Callers :
          /\ thr[c].pc \in {"assembled", "sent"} /\ thr[c].op = "paginate_query" =>
                thr[c].key_expr = OnlyKeyCondition(thr[c].query_params.KeyConditionExpression)
          /\ thr[c].pc = "sent" => thr[c].sent = AloneRequest(thr[c])

\* Two callers with different arguments, both with their request out, on
\* an index and with options set.
C10_Witness ==
    /\ thr[1].pc = "sent" /\ thr[2].pc = "sent"
    /\ thr[1].op = "paginate_query" /\ thr[2].op = "paginate_query"
    /\ thr[1].args # thr[2].args
    /\ thr[1].sent.params.IndexName = "by_g"
    /\ thr[1].sent.params.Limit = Num(1)
    /\ thr[2].sent.params.ScanIndexForward = "False"

====
